---- MODULE Spec2Model ----
(***************************************************************************)
(* Model of the probabilistic module-assignment engine of method2.py:      *)
(* set_initial_conditions, calc_lp / calc_lp_column, adjust_lp, the        *)
(* sampling loop with apply_changes, the convergence monitor               *)
(* (collect_all_p, calc_RMSD, check_convergence_conditions) and            *)
(* get_consensus_modules.                                                  *)
(*                                                                         *)
(* Indices are 0-based as in the Python code.  Floating point values are   *)
(* kept as records [k, v]: k = "num" with v the value in thousandths of a  *)
(* natural-log unit, k = "nan" for NaN and k = "ninf" for -inf (what       *)
(* np.log returns for a negative and for a zero argument).                 *)
(***************************************************************************)
EXTENDS Integers, Sequences, FiniteSets, TLC

VARIABLES
    gene2Samples,             \* K x N binary indicator matrix
    alpha, beta_K,            \* hyperparameters
    max_n_steps, n_steps_averaged, n_points_fit, n_steps_for_convergence,
    moduleSizes, nOnesPerPatientInModules, gene2Module, LP,
    pc,                       \* position in sampling / get_consensus_modules
    step, gene_ndx,           \* loop variables of sampling (step 0: not bound)
    drawn_module,             \* new_module of sampling: the module last drawn, or -1
    monitor_labels,           \* labels of sampling: the window the monitor last evaluated
    gene2Module_history,
    monitor_bound,            \* whether n_skipping_edges, P_diffs, P_prev are bound
    is_converged, n_times_cc_fulfilled, P_prev, P_diffs, n_skipping_edges,
    cc_log,                   \* per completed step: what the convergence check reported
    n_final_steps, converged, \* what sampling returns / reports
    emptied_by,               \* per module: the gene whose move last emptied it, or -1
    window, consensus         \* get_consensus_modules: its input and its result

vars == << gene2Samples, alpha, beta_K, max_n_steps, n_steps_averaged, n_points_fit,
           n_steps_for_convergence, moduleSizes, nOnesPerPatientInModules,
           gene2Module, LP, pc, step, gene_ndx, gene2Module_history, monitor_bound,
           is_converged, n_times_cc_fulfilled, P_prev, P_diffs, n_skipping_edges,
           cc_log, n_final_steps, converged, emptied_by, window, consensus,
           drawn_module, monitor_labels >>

params == << gene2Samples, alpha, beta_K, max_n_steps, n_steps_averaged, n_points_fit,
             n_steps_for_convergence >>

monitor == << monitor_bound, is_converged, n_times_cc_fulfilled, P_prev, P_diffs,
              n_skipping_edges, cc_log, monitor_labels >>

----------------------------------------------------------------------------
(* Bounds of the checked configurations *)

\* largest step cap of the two-gene configurations
MaxSteps == 7
\* largest averaging window W that is combined with every fit length and streak;
\* one run uses the window MaxAveraged + 1
MaxAveraged == 2
\* largest number of fitted points
MaxPointsFit == 2
\* largest required streak
MaxForConvergence == 2

----------------------------------------------------------------------------
(* Dimensions *)

K == Len(gene2Samples)
N == Len(gene2Samples[1])
Genes == 0 .. (K - 1)
Modules == 0 .. (K - 1)
Samples == 0 .. (N - 1)

\* gene2Samples[g,] : the indicator vector of gene g, indexed by sample
gene_vector(g) == [s \in Samples |-> gene2Samples[g + 1][s + 1]]

RECURSIVE SumOver(_, _)
SumOver(S, f) ==
    IF S = {} THEN 0
    ELSE LET x == CHOOSE y \in S : TRUE IN f[x] + SumOver(S \ {x}, f)

----------------------------------------------------------------------------
(* Floating point values *)

Num(v) == [k |-> "num", v |-> v]
NaN == [k |-> "nan", v |-> 0]
NegInf == [k |-> "ninf", v |-> 0]

\* x + y
FAdd(x, y) ==
    IF x.k = "nan" \/ y.k = "nan" THEN NaN
    ELSE IF x.k = "ninf" \/ y.k = "ninf" THEN NegInf
    ELSE Num(x.v + y.v)

\* x - y
FSub(x, y) ==
    IF x.k = "nan" \/ y.k = "nan" THEN NaN
    ELSE IF x.k = "ninf" /\ y.k = "ninf" THEN NaN
    ELSE IF x.k = "ninf" THEN NegInf
    ELSE IF y.k = "ninf" THEN [k |-> "pinf", v |-> 0]
    ELSE Num(x.v - y.v)

\* x > y ; every comparison with NaN is False
FGt(x, y) ==
    IF x.k = "nan" \/ y.k = "nan" THEN FALSE
    ELSE IF x.k = "ninf" THEN FALSE
    ELSE IF y.k = "ninf" THEN TRUE
    ELSE IF x.k = "pinf" THEN y.k # "pinf"
    ELSE IF y.k = "pinf" THEN FALSE
    ELSE x.v > y.v

RECURSIVE FSum(_, _)
FSum(S, f) ==
    IF S = {} THEN Num(0)
    ELSE LET x == CHOOSE y \in S : TRUE IN FAdd(f[x], FSum(S \ {x}, f))

\* 1000 * ln(n), rounded, for n = 1 .. 32
LnTable == << 0, 693, 1099, 1386, 1609, 1792, 1946, 2079, 2197, 2303, 2398, 2485,
              2565, 2639, 2708, 2773, 2833, 2890, 2944, 2996, 3045, 3091, 3135,
              3178, 3219, 3258, 3296, 3332, 3367, 3401, 3434, 3466 >>

\* math.log / np.log of the ratio a / b, b > 0
LogRatio(a, b) ==
    IF a < 0 THEN NaN
    ELSE IF a = 0 THEN NegInf
    ELSE Num(LnTable[a] - LnTable[b])

----------------------------------------------------------------------------
(* LikelihoodEngine *)

\* n * x for an integer n
FScale(n, x) == IF x.k = "num" THEN Num(n * x.v) ELSE x

p0 == Num(N * (LnTable[1] - LnTable[2]) + LnTable[beta_K])
match_score == LogRatio(alpha + 2, 2 * alpha)
mismatch_score == LogRatio(alpha, 2 * alpha)
bK_1 == Num(LnTable[1 + beta_K])

\* n_matches*match_score + (N-n_matches)*mismatch_score + bK_1
single_gene_score(n_matches) ==
    FAdd(FAdd(FScale(n_matches, match_score), FScale(N - n_matches, mismatch_score)), bK_1)

\* oneRatios = (n_ones_per_pat+alpha/2)/(m_size+alpha), as a ratio of integers
oneRatios(n_ones_per_pat, m_size) ==
    [s \in Samples |-> LogRatio(2 * n_ones_per_pat[s] + alpha, 2 * m_size + 2 * alpha)]

\* zeroRatios = 1 - oneRatios
zeroRatios(n_ones_per_pat, m_size) ==
    [s \in Samples |->
        LogRatio(2 * (m_size - n_ones_per_pat[s]) + alpha, 2 * m_size + 2 * alpha)]

calc_lp_formula(n_ones_per_pat, m_size, gv) ==
    LET beta_term == Num(LnTable[m_size + beta_K])
        ones_matching_term ==
            FSum({s \in Samples : gv[s] = 1}, oneRatios(n_ones_per_pat, m_size))
        zeros_matching_term ==
            FSum({s \in Samples : gv[s] = 0}, zeroRatios(n_ones_per_pat, m_size))
    IN FAdd(FAdd(ones_matching_term, zeros_matching_term), beta_term)

\* part 1 of calc_lp, "prepare vals": whether a special case returns p0, whether
\* the gene is removed from the module (the test gene_ndx == module_ndx), and the
\* m_size and n_ones_per_pat the rest of calc_lp computes with
calc_lp_vals(g, m, sizes, ones) ==
    LET gv == gene_vector(g)
    IN [baseline |-> (sizes[m] = 0 \/ (g = m /\ sizes[m] = 1)),
        removed |-> (sizes[m] # 0 /\ g = m),
        m_size |-> IF g = m THEN sizes[m] - 1 ELSE sizes[m],
        n_ones_per_pat |->
            IF g = m THEN [s \in Samples |-> ones[m][s] - gv[s]] ELSE ones[m]]

\* calc_lp(gene_ndx, module_ndx, ...) on the aggregates sizes, ones
calc_lp(g, m, sizes, ones) ==
    LET gv == gene_vector(g)
        vals == calc_lp_vals(g, m, sizes, ones)
    IN IF vals.baseline THEN p0
       ELSE IF vals.m_size = 1
       THEN single_gene_score(SumOver({s \in Samples : gv[s] = 1}, vals.n_ones_per_pat))
       ELSE calc_lp_formula(vals.n_ones_per_pat, vals.m_size, gv)

\* the vector part of calc_lp_column: the values for all genes at once
calc_lp_column_vals(m, sizes, ones) ==
    [g \in Genes |->
        IF sizes[m] = 1
        THEN single_gene_score(
                 SumOver(Samples, [s \in Samples |-> gene_vector(g)[s] * ones[m][s]]))
        ELSE calc_lp_formula(ones[m], sizes[m], gene_vector(g))]

\* calc_lp_column(module_ndx, ...): a scalar p0 for an empty module (broadcast
\* over the column by the caller), otherwise the vector with vals[module_ndx]
\* recomputed by calc_lp
calc_lp_column(m, sizes, ones) ==
    IF sizes[m] = 0 THEN [g \in Genes |-> p0]
    ELSE [g \in Genes |->
            IF g = m THEN calc_lp(m, m, sizes, ones)
            ELSE calc_lp_column_vals(m, sizes, ones)[g]]

----------------------------------------------------------------------------
(* ModelInitializer: set_initial_conditions *)

initial_moduleSizes == [m \in Modules |-> 1]
initial_nOnes == [m \in Modules |-> gene_vector(m)]
initial_gene2Module == [g \in Genes |-> g]

\* LP[i,j] = calc_lp(i,j) for j >= i, mirrored into LP[j,i]
initial_LP ==
    [g \in Genes |-> [m \in Modules |->
        IF g <= m THEN calc_lp(g, m, initial_moduleSizes, initial_nOnes)
        ELSE calc_lp(m, g, initial_moduleSizes, initial_nOnes)]]

----------------------------------------------------------------------------
(* adjust_lp *)

n_exp_orders == 7

\* 10^6 * exp(-q), rounded, for q = 0 .. 7
ExpTable == << 1000000, 367879, 135335, 49787, 18316, 6738, 2479, 912 >>

\* 10^6 * exp(-r/1000) for 0 <= r < 1000, by the series of exp
ExpFrac(r) ==
    LET t2 == (r * r) \div 2
        t3 == (t2 * r) \div 3000
        t4 == (t3 * r) \div 4000
        t5 == (t4 * r) \div 5000
    IN 1000000 - 1000 * r + t2 - t3 + t4 - t5

\* np.exp(adj_lp) in millionths, for -n_exp_orders <= adj_lp <= 0 (in thousandths)
np_exp(v) ==
    LET d == 0 - v
    IN (ExpTable[(d \div 1000) + 1] * (ExpFrac(d % 1000) \div 1000)) \div 1000

\* max(log_probs): Python's max keeps the first item unless a later one compares greater
RECURSIVE py_max(_, _, _)
py_max(row, i, best) ==
    IF i > K - 1 THEN best
    ELSE py_max(row, i + 1, IF FGt(row[i], best) THEN row[i] ELSE best)

max_p(row) == py_max(row, 1, row[0])

\* the list probs before normalisation; 0 for the entries cut off
adjust_lp_weights(row) ==
    [m \in Modules |->
        LET adj_lp == FSub(row[m], max_p(row))
        IN IF adj_lp.k = "num" /\ adj_lp.v >= 0 - n_exp_orders * 1000
           THEN IF adj_lp.v > 0 THEN 1000000 ELSE np_exp(adj_lp.v)
           ELSE 0]

\* sum(probs) is 0 only when every entry was cut off (the row maximum is NaN or
\* -inf); probs/sum(probs) then divides a list by the int 0 and raises
adjust_lp_fails(row) == SumOver(Modules, adjust_lp_weights(row)) = 0

\* probs/sum(probs): each probability as the ratio << numerator, denominator >>
adjust_lp(row) ==
    LET w == adjust_lp_weights(row)
        total == SumOver(Modules, w)
    IN [m \in Modules |-> << w[m], total >>]

----------------------------------------------------------------------------
(* ConvergenceMonitor *)

\* the last n items of a list: lst[-n:]  (lst[-0:] is the whole list)
LastItems(lst, n) ==
    IF n = 0 \/ n >= Len(lst) THEN lst ELSE SubSeq(lst, Len(lst) - n + 1, Len(lst))

\* labels[:,edge] : the column of one gene over the window
states_of(labels, edge) == [i \in 1 .. Len(labels) |-> labels[i][edge]]

\* np.unique(states, return_counts=True)
np_unique(states) == {states[i] : i \in 1 .. Len(states)}
np_counts(states, u) == Cardinality({i \in 1 .. Len(states) : states[i] = u})

\* calc_p_transitions: for every pair of unique x unique, the number of
\* consecutive occurrences divided by counts[unique.index(k[0])], kept as the
\* ratio << v, count >>
calc_p_transitions(states) ==
    [k \in np_unique(states) \X np_unique(states) |->
        << Cardinality({i \in 1 .. (Len(states) - 1) :
                            states[i] = k[1] /\ states[i + 1] = k[2]}),
           np_counts(states, k[1]) >>]

\* collect_all_p: a table for every gene with more than one module in the window
collect_all_p(labels) ==
    [edge \in {g \in Genes : Cardinality(np_unique(states_of(labels, g))) > 1} |->
        calc_p_transitions(states_of(labels, edge))]

RECURSIVE Factorial(_)
Factorial(n) == IF n <= 1 THEN 1 ELSE n * Factorial(n - 1)

\* floor of the square root
RECURSIVE isqrt_from(_, _)
isqrt_from(x, r) == IF (r + 1) * (r + 1) > x THEN r ELSE isqrt_from(x, r + 1)

RECURSIVE isqrt(_)
isqrt(x) ==
    IF x < 4 THEN isqrt_from(x, 0)
    ELSE LET h == 2 * isqrt(x \div 4) IN IF (h + 1) * (h + 1) <= x THEN h + 1 ELSE h

\* the list Pdiff of calc_RMSD, as the set of its (edge, pair) items with the
\* squared difference of each in units of 1/F^2, F = (window length)!
\* The tables added for the edges of one collection only are never read: the
\* loop runs over the intersection of the key sets taken before they were added.
Pdiff_items(P, Pp) ==
    {x \in (Genes \X (Modules \X Modules)) :
        /\ x[1] \in (DOMAIN P) \cap (DOMAIN Pp)
        /\ x[2] \in (DOMAIN P[x[1]]) \cup (DOMAIN Pp[x[1]])}

Pdiff_value(P, Pp, x, F) ==
    LET e == x[1]
        k == x[2]
        a == IF k \in DOMAIN P[e] THEN P[e][k][1] * (F \div P[e][k][2]) ELSE 0
        b == IF k \in DOMAIN Pp[e] THEN Pp[e][k][1] * (F \div Pp[e][k][2]) ELSE 0
    IN (a - b) * (a - b)

\* calc_RMSD: np.sqrt(sum(Pdiff)/len(Pdiff)) in hundredths, 0 for an empty Pdiff
calc_RMSD(P, Pp, W) ==
    LET items == Pdiff_items(P, Pp)
        F == Factorial(W)
        total == SumOver(items, [x \in items |-> Pdiff_value(P, Pp, x, F)])
    IN IF items = {} THEN 0
       ELSE isqrt((total * 10000) \div (Cardinality(items) * F * F))

RECURSIVE SeqSum(_, _)
SeqSum(sq, i) == IF i > Len(sq) THEN 0 ELSE sq[i] + SeqSum(sq, i + 1)

SeqMin(sq) == CHOOSE x \in {sq[i] : i \in 1 .. Len(sq)} : \A i \in 1 .. Len(sq) : x <= sq[i]
SeqMax(sq) == CHOOSE x \in {sq[i] : i \in 1 .. Len(sq)} : \A i \in 1 .. Len(sq) : x >= sq[i]

Abs(x) == IF x < 0 THEN 0 - x ELSE x

\* tol = 0.05 as the ratio 5/100
tol == << 5, 100 >>

\* the slope k of the least-squares line through the points (i, y_i),
\* y = (n_skipping_edges-se_min)/(se_max-se_min)*n_points, as
\* [nan, num, den]: NaN when se_max = se_min (0/0 in the scaling), else num/den
fitted_slope(pts, se_min, se_max) ==
    LET n_points == Len(pts)
        sx == SeqSum([i \in 1 .. n_points |-> i - 1], 1)
        sxx == SeqSum([i \in 1 .. n_points |-> (i - 1) * (i - 1)], 1)
        sy == SeqSum(pts, 1)
        sxy == SeqSum([i \in 1 .. n_points |-> (i - 1) * pts[i]], 1)
        D == n_points * sxx - sx * sx
    IN IF se_max = se_min THEN [nan |-> TRUE, num |-> 0, den |-> 1]
       ELSE IF D = 0 THEN [nan |-> FALSE, num |-> 0, den |-> 1]
       ELSE [nan |-> FALSE,
             num |-> n_points * (n_points * sxy - sx * sy),
             den |-> (se_max - se_min) * D]

\* check_convergence_conditions: abs(k) < tol
check_convergence_conditions(pts, se_min, se_max) ==
    LET k == fitted_slope(pts, se_min, se_max)
    IN /\ ~k.nan
       /\ tol[2] * Abs(k.num) < tol[1] * k.den

----------------------------------------------------------------------------
(* AssignmentSampler: apply_changes and the sampling loop *)

\* apply_changes without the subtraction of the gene's vector from curr_module
apply_changes_no_subtract(g, new_module, curr_module, st, calc_LPs) ==
    LET gv == gene_vector(g)
        g2m == [st.g2m EXCEPT ![g] = new_module]
        sizes1 == [st.sizes EXCEPT ![curr_module] = @ - 1]
        ones2 == [st.ones EXCEPT ![new_module] = [s \in Samples |-> @[s] + gv[s]]]
        sizes2 == [sizes1 EXCEPT ![new_module] = @ + 1]
    IN [g2m |-> g2m, ones |-> ones2, sizes |-> sizes2, lp |-> st.lp]

\* apply_changes without the decrement of curr_module's size
apply_changes_no_decrement(g, new_module, curr_module, st, calc_LPs) ==
    LET gv == gene_vector(g)
        g2m == [st.g2m EXCEPT ![g] = new_module]
        ones1 == [st.ones EXCEPT ![curr_module] = [s \in Samples |-> @[s] - gv[s]]]
        ones2 == [ones1 EXCEPT ![new_module] = [s \in Samples |-> @[s] + gv[s]]]
        sizes2 == [st.sizes EXCEPT ![new_module] = @ + 1]
    IN [g2m |-> g2m, ones |-> ones2, sizes |-> sizes2, lp |-> st.lp]

\* apply_changes recomputing the column of new_module only
apply_changes_new_column_only(g, new_module, curr_module, st, calc_LPs) ==
    LET gv == gene_vector(g)
        g2m == [st.g2m EXCEPT ![g] = new_module]
        ones1 == [st.ones EXCEPT ![curr_module] = [s \in Samples |-> @[s] - gv[s]]]
        sizes1 == [st.sizes EXCEPT ![curr_module] = @ - 1]
        ones2 == [ones1 EXCEPT ![new_module] = [s \in Samples |-> @[s] + gv[s]]]
        sizes2 == [sizes1 EXCEPT ![new_module] = @ + 1]
        col_new == calc_lp_column(new_module, sizes2, ones2)
        lp == [h \in Genes |-> [m \in Modules |->
                 IF h # g /\ m = new_module THEN col_new[h] ELSE st.lp[h][m]]]
    IN [g2m |-> g2m, ones |-> ones2, sizes |-> sizes2,
        lp |-> IF calc_LPs THEN lp ELSE st.lp]

\* apply_changes recomputing both columns whole, the moved gene's entries included
apply_changes_whole_columns(g, new_module, curr_module, st, calc_LPs) ==
    LET gv == gene_vector(g)
        g2m == [st.g2m EXCEPT ![g] = new_module]
        ones1 == [st.ones EXCEPT ![curr_module] = [s \in Samples |-> @[s] - gv[s]]]
        sizes1 == [st.sizes EXCEPT ![curr_module] = @ - 1]
        ones2 == [ones1 EXCEPT ![new_module] = [s \in Samples |-> @[s] + gv[s]]]
        sizes2 == [sizes1 EXCEPT ![new_module] = @ + 1]
        col_curr == calc_lp_column(curr_module, sizes2, ones2)
        col_new == calc_lp_column(new_module, sizes2, ones2)
        lp == [h \in Genes |-> [m \in Modules |->
                 IF m = new_module THEN col_new[h]
                 ELSE IF m = curr_module THEN col_curr[h]
                 ELSE st.lp[h][m]]]
    IN [g2m |-> g2m, ones |-> ones2, sizes |-> sizes2,
        lp |-> IF calc_LPs THEN lp ELSE st.lp]

\* apply_changes(gene_ndx, new_module, curr_module, ..., calc_LPs) on the state
\* st = [g2m, ones, sizes, lp]; the result is the state it leaves
apply_changes(g, new_module, curr_module, st, calc_LPs) ==
    LET gv == gene_vector(g)
        g2m == [st.g2m EXCEPT ![g] = new_module]
        ones1 == [st.ones EXCEPT ![curr_module] = [s \in Samples |-> @[s] - gv[s]]]
        sizes1 == [st.sizes EXCEPT ![curr_module] = @ - 1]
        ones2 == [ones1 EXCEPT ![new_module] = [s \in Samples |-> @[s] + gv[s]]]
        sizes2 == [sizes1 EXCEPT ![new_module] = @ + 1]
        col_curr == calc_lp_column(curr_module, sizes2, ones2)
        col_new == calc_lp_column(new_module, sizes2, ones2)
        lp == [h \in Genes |-> [m \in Modules |->
                 IF h = g THEN st.lp[h][m]
                 ELSE IF m = new_module THEN col_new[h]
                 ELSE IF m = curr_module THEN col_curr[h]
                 ELSE st.lp[h][m]]]
    IN [g2m |-> g2m, ones |-> ones2, sizes |-> sizes2,
        lp |-> IF calc_LPs THEN lp ELSE st.lp]

live == [g2m |-> gene2Module, ones |-> nOnesPerPatientInModules,
         sizes |-> moduleSizes, lp |-> LP]

\* the modules np.random.choice(range(0,K), p=P_adj) can return
drawable(row) == {m \in Modules : adjust_lp(row)[m][1] > 0}

\* for step in range(1, max_n_steps): where the loop goes after step s
loop_pc(s) == IF s < max_n_steps THEN "genes" ELSE "exhausted"

\* the drawn module differs from the current one: the move is applied
Move ==
    /\ pc = "genes" /\ gene_ndx < K
    /\ ~adjust_lp_fails(LP[gene_ndx])
    /\ \E new_module \in drawable(LP[gene_ndx]) :
         /\ new_module # gene2Module[gene_ndx]
         /\ LET curr_module == gene2Module[gene_ndx]
                st == apply_changes(gene_ndx, new_module, curr_module, live, TRUE)
            IN /\ gene2Module' = st.g2m
               /\ nOnesPerPatientInModules' = st.ones
               /\ moduleSizes' = st.sizes
               /\ LP' = st.lp
               /\ emptied_by' = IF st.sizes[curr_module] = 0
                                THEN [emptied_by EXCEPT ![curr_module] = gene_ndx]
                                ELSE emptied_by
         /\ drawn_module' = new_module
    /\ gene_ndx' = gene_ndx + 1
    /\ UNCHANGED << params, monitor, pc, step, gene2Module_history, n_final_steps,
                    converged, window, consensus >>

\* the drawn module is the current one: nothing changes
Stay ==
    /\ pc = "genes" /\ gene_ndx < K
    /\ ~adjust_lp_fails(LP[gene_ndx])
    /\ gene2Module[gene_ndx] \in drawable(LP[gene_ndx])
    /\ drawn_module' = gene2Module[gene_ndx]
    /\ gene_ndx' = gene_ndx + 1
    /\ UNCHANGED << params, monitor, pc, step, gene2Module_history, n_final_steps,
                    converged, window, consensus, gene2Module,
                    nOnesPerPatientInModules, moduleSizes, LP, emptied_by >>

\* adjust_lp raises: every weight of the row was cut off
DrawFails ==
    /\ pc = "genes" /\ gene_ndx < K
    /\ adjust_lp_fails(LP[gene_ndx])
    /\ pc' = "draw_error"
    /\ UNCHANGED << params, monitor, step, gene_ndx, gene2Module_history, n_final_steps,
                    converged, window, consensus, gene2Module,
                    nOnesPerPatientInModules, moduleSizes, LP, emptied_by, drawn_module >>

\* a streak counter that is not reset by a step that is not certified
next_streak_no_reset(certified, n_times) == IF certified THEN n_times + 1 ELSE n_times

\* if is_converged: n_times_cc_fulfilled += 1, else: n_times_cc_fulfilled = 0
next_streak(certified, n_times) == IF certified THEN n_times + 1 ELSE 0

\* the end of a step: the snapshot is appended, the monitor is run, the streak
\* is counted and sampling returns on global convergence
EndStep ==
    /\ pc = "genes" /\ gene_ndx = K
    /\ LET W == n_steps_averaged
           history == Append(gene2Module_history, gene2Module)
           labels == SubSeq(history, step - W + 1, step)
           P == collect_all_p(labels)
           first == (step = W)
           later == (step > W)
           P_diffs1 == IF first THEN << >>
                       ELSE IF later THEN Append(P_diffs, calc_RMSD(P, P_prev, W))
                       ELSE P_diffs
           nse1 == IF first THEN << Cardinality(DOMAIN P) >>
                   ELSE IF later THEN Append(n_skipping_edges, Cardinality(DOMAIN P))
                   ELSE n_skipping_edges
           checked == (step >= W + n_points_fit)
           is_converged1 ==
               IF checked
               THEN check_convergence_conditions(LastItems(nse1, n_points_fit),
                                                 SeqMin(nse1), SeqMax(nse1))
               ELSE IF first THEN FALSE ELSE is_converged
           n_times1 == next_streak(is_converged1,
                                   IF first THEN 0 ELSE n_times_cc_fulfilled)
       IN /\ gene2Module_history' = history
          /\ monitor_bound' = (monitor_bound \/ first)
          /\ monitor_labels' = IF first \/ later THEN labels ELSE monitor_labels
          /\ P_prev' = IF first \/ later THEN P ELSE P_prev
          /\ P_diffs' = P_diffs1
          /\ n_skipping_edges' = nse1
          /\ is_converged' = is_converged1
          /\ n_times_cc_fulfilled' = n_times1
          /\ cc_log' = Append(cc_log, IF ~checked THEN "not_run"
                                      ELSE IF is_converged1 THEN "certified"
                                      ELSE "rejected")
          /\ IF n_times1 = n_steps_for_convergence
             THEN /\ n_final_steps' = n_points_fit + n_steps_for_convergence
                  /\ converged' = TRUE
                  /\ pc' = "returned"
                  /\ UNCHANGED << step, gene_ndx >>
             ELSE /\ pc' = loop_pc(step + 1)
                  /\ step' = IF step + 1 < max_n_steps THEN step + 1 ELSE step
                  /\ gene_ndx' = 0
                  /\ UNCHANGED << n_final_steps, converged >>
    /\ UNCHANGED << params, window, consensus, gene2Module, nOnesPerPatientInModules,
                    moduleSizes, LP, emptied_by, drawn_module >>

\* the loop's exit with the window size of the converged return
ReturnNotConverged_same_window ==
    /\ pc = "exhausted"
    /\ n_final_steps' = n_points_fit + n_steps_for_convergence
    /\ pc' = IF monitor_bound THEN "returned" ELSE "return_error"
    /\ UNCHANGED << params, monitor, step, gene_ndx, gene2Module_history, converged,
                    window, consensus, gene2Module, nOnesPerPatientInModules,
                    moduleSizes, LP, emptied_by, drawn_module >>

\* the loop ran out of steps: n_final_steps = n_steps_for_convergence and the
\* return of n_skipping_edges and P_diffs, which raises when they were never bound
ReturnNotConverged ==
    /\ pc = "exhausted"
    /\ n_final_steps' = n_steps_for_convergence
    /\ pc' = IF monitor_bound THEN "returned" ELSE "return_error"
    /\ UNCHANGED << params, monitor, step, gene_ndx, gene2Module_history, converged,
                    window, consensus, gene2Module, nOnesPerPatientInModules,
                    moduleSizes, LP, emptied_by, drawn_module >>

----------------------------------------------------------------------------
(* ConsensusBuilder: get_consensus_modules *)

\* the largest module among the most frequent ones
consensus_module_last(labels, g) ==
    LET states == states_of(labels, g)
        unique == np_unique(states)
        best == {u \in unique : \A v \in unique : np_counts(states, u) >= np_counts(states, v)}
    IN CHOOSE u \in best : \A v \in best : u >= v

\* unique[np.argmax(counts)]: unique is sorted and argmax returns the first
\* maximum, so the smallest module among the most frequent ones
consensus_module(labels, g) ==
    LET states == states_of(labels, g)
        unique == np_unique(states)
        best == {u \in unique : \A v \in unique : np_counts(states, u) >= np_counts(states, v)}
    IN CHOOSE u \in best : \A v \in best : u <= v

consensus_of(labels) == [g \in Genes |-> consensus_module(labels, g)]

\* the second loop, from index m on: apply_changes is called with gene_ndx, the
\* variable the first loop left at K-1, for every m whose module differs
RECURSIVE move_to_consensus(_, _, _)
move_to_consensus(m, cons, st) ==
    IF m > K - 1 THEN st
    ELSE LET curr_module == st.g2m[m]
             new_module == cons[m]
         IN move_to_consensus(m + 1, cons,
                IF curr_module # new_module
                THEN apply_changes(K - 1, new_module, curr_module, st, FALSE)
                ELSE st)

\* get_consensus_modules on the final window of the history, its last
\* n_final_steps snapshots, and on the live aggregates sampling left
Consensus ==
    /\ pc = "returned"
    /\ LET labels == LastItems(gene2Module_history, n_final_steps)
           cons == consensus_of(labels)
           st == move_to_consensus(0, cons, live)
       IN /\ window' = labels
          /\ consensus' = cons
          /\ gene2Module' = st.g2m
          /\ nOnesPerPatientInModules' = st.ones
          /\ moduleSizes' = st.sizes
          /\ LP' = st.lp
    /\ pc' = "done"
    /\ UNCHANGED << params, monitor, step, gene_ndx, gene2Module_history, n_final_steps,
                    converged, emptied_by, drawn_module >>

----------------------------------------------------------------------------
(* Configurations and the specification *)

\* two genes: the step cap and the monitor's parameters vary
MonitorInputs ==
    { << <<1, 0>>, <<1, 0>> >> }

\* << max_n_steps, n_steps_averaged, n_points_fit, n_steps_for_convergence >>,
\* each at least 1: caps too small for any window to be evaluated, long runs,
\* and a long run with a window of more than two snapshots
MonitorParams ==
    ({1, 2} \X {1, MaxAveraged} \X {1} \X {1})
    \cup ({MaxSteps} \X {MaxAveraged} \X {1, MaxPointsFit} \X {1, MaxForConvergence})
    \cup ({MaxSteps} \X {MaxAveraged + 1} \X {1} \X {1})

\* three genes, short runs: the hyperparameters and the indicator rows vary
SamplerInputs ==
    { << <<1, 0>>, <<1, 0>>, <<0, 1>> >>,
      << <<1, 1>>, <<1, 0>>, <<0, 1>> >>,
      << <<1, 0>>, <<1, 0>>, <<1, 0>> >> }

\* four genes, short runs
WideInputs ==
    { << <<1, 0>>, <<0, 1>>, <<0, 1>>, <<0, 1>> >> }

InitWith(m, a, b, cap, W, fit, conv) ==
    /\ gene2Samples = m
    /\ alpha = a
    /\ beta_K = b
    /\ max_n_steps = cap
    /\ n_steps_averaged = W
    /\ n_points_fit = fit
    /\ n_steps_for_convergence = conv
    /\ moduleSizes = initial_moduleSizes
    /\ nOnesPerPatientInModules = initial_nOnes
    /\ gene2Module = initial_gene2Module
    /\ LP = initial_LP
    /\ step = IF 1 < cap THEN 1 ELSE 0
    /\ gene_ndx = 0
    /\ pc = loop_pc(1)
    /\ gene2Module_history = << initial_gene2Module >>
    /\ monitor_bound = FALSE
    /\ is_converged = FALSE
    /\ n_times_cc_fulfilled = 0
    /\ P_prev = << >>
    /\ P_diffs = << >>
    /\ n_skipping_edges = << >>
    /\ cc_log = << >>
    /\ n_final_steps = 0
    /\ converged = FALSE
    /\ emptied_by = [x \in Modules |-> 0 - 1]
    /\ window = << >>
    /\ consensus = << >>
    /\ drawn_module = 0 - 1
    /\ monitor_labels = << >>

InitMonitor ==
    \E m \in MonitorInputs, c \in MonitorParams :
        InitWith(m, 1, 1, c[1], c[2], c[3], c[4])

InitSampler ==
    \E m \in SamplerInputs, a \in {1, 2}, b \in {1, 2} :
        InitWith(m, a, b, 3, 1, 1, 1)

InitWide ==
    \E m \in WideInputs :
        InitWith(m, 1, 1, 3, 1, 1, 1)

Init == InitMonitor \/ InitSampler \/ InitWide

Next ==
    \/ Move
    \/ Stay
    \/ DrawFails
    \/ EndStep
    \/ ReturnNotConverged
    \/ Consensus

Spec == Init /\ [][Next]_vars

----------------------------------------------------------------------------
(* Properties *)

members(g2m, m) == {g \in Genes : g2m[g] = m}

\* the aggregates are those of the partition g2m
aggregates_of(g2m) ==
    /\ \A m \in Modules : moduleSizes[m] = Cardinality(members(g2m, m))
    /\ \A m \in Modules : \A s \in Samples :
         nOnesPerPatientInModules[m][s] =
             SumOver(members(g2m, m), [g \in Genes |-> gene_vector(g)[s]])

sampling_pcs == {"genes", "exhausted", "returned", "draw_error", "return_error"}

\* C1: after get_consensus_modules every gene's live label is its consensus
\* module, and the sizes and oneCounts are those of the consensus partition
C1_ConsensusReconciled ==
    pc = "done" => (gene2Module = consensus /\ aggregates_of(consensus))

\* C2: during sampling, after every applied move, each module's oneCounts row
\* is the sum of the indicator vectors of its current genes and its size is
\* their number
C2_AggregatesMatchMembers ==
    pc \in sampling_pcs => aggregates_of(gene2Module)

\* a move has been applied and some module holds several genes
C2_Witness ==
    /\ pc = "genes"
    /\ gene2Module # initial_gene2Module
    /\ \E m \in Modules : moduleSizes[m] >= 2 /\ Cardinality(members(gene2Module, m)) >= 2

\* C3: at every step of sampling and after the consensus reconciliation the
\* module sizes sum to K and none is negative
C3_SizesConserved ==
    /\ SumOver(Modules, moduleSizes) = K
    /\ \A m \in Modules : moduleSizes[m] >= 0

\* the reconciliation has moved a gene
C3_Witness ==
    /\ pc = "done"
    /\ gene2Module # gene2Module_history[Len(gene2Module_history)]

\* C4 (as stated): for every empty module m and every gene g, LP[g, m] = p0,
\* the entry of the gene whose move emptied m included
C4_EmptyColumnAllBaseline ==
    pc \in sampling_pcs =>
        \A m \in Modules : moduleSizes[m] = 0 => \A g \in Genes : LP[g][m] = p0

\* C4 (amended): for every empty module m, LP[g, m] = p0 for every gene g other
\* than the gene whose move emptied m (its entry keeps its pre-move value)
C4_EmptyColumnBaseline ==
    pc \in sampling_pcs =>
        \A m \in Modules : moduleSizes[m] = 0 =>
            \A g \in Genes \ {emptied_by[m]} : LP[g][m] = p0

\* a module has been emptied and the entry of the gene that left it is stale
C4_Witness ==
    /\ pc = "genes"
    /\ \E m \in Modules :
         /\ moduleSizes[m] = 0
         /\ emptied_by[m] \in Genes
         /\ LP[emptied_by[m]][m] # p0

\* C5 (as stated): the reported consensus window size is
\* n_points_fit + n_steps_for_convergence however sampling stopped
C5_SameWindowSize ==
    pc \in {"returned", "done"} =>
        n_final_steps = n_points_fit + n_steps_for_convergence

\* C5 (amended): n_final_steps is n_points_fit + n_steps_for_convergence after
\* global convergence and n_steps_for_convergence after the step cap
C5_WindowSizeByOutcome ==
    pc \in {"returned", "done"} =>
        n_final_steps = IF converged THEN n_points_fit + n_steps_for_convergence
                        ELSE n_steps_for_convergence

\* sampling returned at the step cap without converging
C5_Witness ==
    /\ pc = "returned"
    /\ ~converged
    /\ step = max_n_steps - 1
    /\ n_final_steps = n_steps_for_convergence

\* C6: a run that reaches the step cap without converging returns normally,
\* whatever max_n_steps >= 1 is; it never ends in an error
C6_CapReturnsNormally ==
    pc # "return_error"

\* the first step at which the convergence check runs
first_check_step == n_steps_averaged + n_points_fit

\* every snapshot of the windows evaluated up to the first check is the same
constant_windows ==
    /\ Len(cc_log) >= first_check_step
    /\ \A i \in 1 .. first_check_step : gene2Module_history[i] = gene2Module_history[1]

\* the counts the first check saw
first_check_counts == SubSeq(n_skipping_edges, 1, n_points_fit + 1)

\* C7: on a history constant across all windows every window has zero
\* skipping edges, the fitted slope is 0 and the first step at which the
\* convergence check runs is certified locally convergent
C7_ConstantHistoryCertified ==
    constant_windows =>
        /\ \A i \in 1 .. (n_points_fit + 1) : n_skipping_edges[i] = 0
        /\ LET k == fitted_slope(LastItems(first_check_counts, n_points_fit),
                                 SeqMin(first_check_counts), SeqMax(first_check_counts))
           IN ~k.nan /\ k.num = 0
        /\ cc_log[first_check_step] = "certified"

RECURSIVE trailing_certified(_)
trailing_certified(log) ==
    IF log = << >> \/ log[Len(log)] # "certified" THEN 0
    ELSE 1 + trailing_certified(SubSeq(log, 1, Len(log) - 1))

\* C8: the streak counter is the number of consecutive certified steps ending
\* at the last completed step (0 after any step that is not certified, and
\* before the check first runs), and sampling stops as converged only when the
\* last n_steps_for_convergence steps were each certified
C8_StreakIsConsecutive ==
    /\ n_times_cc_fulfilled = trailing_certified(cc_log)
    /\ converged =>
         /\ Len(cc_log) >= n_steps_for_convergence
         /\ \A i \in (Len(cc_log) - n_steps_for_convergence + 1) .. Len(cc_log) :
                cc_log[i] = "certified"

\* two certified steps separated by a rejected one, with a required streak of
\* two: the counter stands at 1 and sampling has not converged
C8_Witness ==
    /\ n_steps_for_convergence = 2
    /\ ~converged
    /\ n_times_cc_fulfilled = 1
    /\ \E i \in 1 .. (Len(cc_log) - 2) :
         /\ cc_log[i] = "certified"
         /\ cc_log[i + 1] = "rejected"
         /\ cc_log[i + 2] = "certified"
         /\ i + 2 = Len(cc_log)

occurrences(g, m) == Cardinality({i \in 1 .. Len(window) : window[i][g] = m})

\* C9: the consensus module of every gene has the highest occurrence count in
\* the gene's window column and is the lowest module index with that count
C9_MajorityLowestIndex ==
    pc = "done" =>
        \A g \in Genes : \A m \in Modules :
            /\ occurrences(g, consensus[g]) >= occurrences(g, m)
            /\ occurrences(g, m) = occurrences(g, consensus[g]) => consensus[g] <= m

\* a gene spent exactly half of the window in each of two modules
C9_Witness ==
    /\ pc = "done"
    /\ \E g \in Genes : \E a \in Modules : \E b \in Modules :
         /\ a < b
         /\ occurrences(g, a) = occurrences(g, b)
         /\ 2 * occurrences(g, a) = Len(window)
         /\ consensus[g] = a

\* x is more than n_exp_orders below y
far_below(x, y) ==
    \/ x.k = "ninf" /\ y.k = "num"
    \/ x.k = "num" /\ y.k = "num" /\ x.v < y.v - n_exp_orders * 1000

\* C10: the distribution adjust_lp produces for the row of the gene about to
\* be sampled has no negative entry, sums to 1, is non-zero on the modules of
\* maximum affinity and zero on every module more than 7 below the maximum
C10_ValidDistribution ==
    (pc = "genes" /\ gene_ndx < K) =>
        LET row == LP[gene_ndx]
            P_adj == adjust_lp(row)
        IN /\ ~adjust_lp_fails(row)
           /\ \A m \in Modules : P_adj[m][1] >= 0 /\ P_adj[m][2] > 0
           /\ SumOver(Modules, [m \in Modules |-> P_adj[m][1]]) = P_adj[0][2]
           /\ \A m \in Modules :
                (\A x \in Modules : ~FGt(row[x], row[m]) /\ row[x].k # "nan")
                    => P_adj[m][1] > 0
           /\ \A m \in Modules :
                (\E x \in Modules : far_below(row[m], row[x])) => P_adj[m][1] = 0

\* a step of sampling that applies a move of gene_ndx
move_applied == pc = "genes" /\ gene2Module' # gene2Module

\* what is required of the call calc_lp(g, m) made on the partition g2m with
\* the aggregates sizes, ones: the gene is removed exactly when it is a member
calc_lp_by_membership(g, m, g2m, sizes, ones) ==
    LET vals == calc_lp_vals(g, m, sizes, ones)
        gv == gene_vector(g)
        member == (g2m[g] = m)
    IN /\ sizes[m] # 0 => (vals.removed <=> member)
       /\ (member /\ sizes[m] >= 2) =>
            /\ ~vals.baseline
            /\ vals.m_size = sizes[m] - 1
            /\ vals.n_ones_per_pat = [s \in Samples |-> ones[m][s] - gv[s]]
       /\ (member /\ sizes[m] = 1) => vals.baseline
       /\ (~member /\ sizes[m] >= 1) =>
            /\ ~vals.baseline
            /\ vals.m_size = sizes[m]
            /\ vals.n_ones_per_pat = ones[m]
       /\ ~vals.baseline =>
            \A s \in Samples : vals.n_ones_per_pat[s] \in 0 .. vals.m_size

\* C11: in every calc_lp call, those of set_initial_conditions and the self
\* entry calc_lp(m, m) of every column apply_changes recomputes, the gene is
\* removed from the module exactly when it is currently assigned to it
\* (baseline when that empties the module), a non-member meets the unreduced
\* size and oneCounts, and the counts used lie in 0 .. size used
C11_ExclusionByMembership ==
    /\ \A g \in Genes : \A m \in Modules :
         g <= m => calc_lp_by_membership(g, m, initial_gene2Module,
                                         initial_moduleSizes, initial_nOnes)
    /\ [][move_applied =>
            \A m \in {gene2Module[gene_ndx], gene2Module'[gene_ndx]} :
                moduleSizes'[m] # 0 =>
                    calc_lp_by_membership(m, m, gene2Module', moduleSizes',
                                          nOnesPerPatientInModules')]_vars

\* the number of window positions other than the last at which the gene is in prev
predecessor_count(states, prev) ==
    Cardinality({i \in 1 .. (Len(states) - 1) : states[i] = prev})

\* the number of consecutive pairs (prev, next) in the gene's window column
pair_count(states, prev, next) ==
    Cardinality({i \in 1 .. (Len(states) - 1) : states[i] = prev /\ states[i + 1] = next})

\* C12: in every transition table of the collection the monitor built last,
\* for every module prev that occurs as a predecessor in the gene's window
\* column, each probability (prev, next) is the pair's count divided by the
\* number of occurrences of prev as a predecessor, and the probabilities of
\* prev over all next modules sum to exactly 1
C12_RowsNormalised ==
    monitor_bound =>
        \A edge \in DOMAIN P_prev :
            LET states == states_of(monitor_labels, edge)
                p == P_prev[edge]
                unique == np_unique(states)
            IN \A prev \in unique :
                 predecessor_count(states, prev) > 0 =>
                    /\ \A next \in unique :
                         p[<< prev, next >>][1] * predecessor_count(states, prev)
                             = pair_count(states, prev, next) * p[<< prev, next >>][2]
                    /\ SumOver(unique, [next \in unique |-> p[<< prev, next >>][1]])
                           = p[<< prev, prev >>][2]

\* the identity distribution on the keys of the table T: 1 on (x, x), 0 elsewhere
identity_table(T) ==
    [k \in DOMAIN T |-> IF k[1] = k[2] THEN << 1, 1 >> ELSE << 0, 1 >>]

\* the collection P with, for every gene that has a table in Q only, the
\* identity distribution on that table's keys
with_identity(P, Q) ==
    [edge \in (DOMAIN P) \cup (DOMAIN Q) |->
        IF edge \in DOMAIN P THEN P[edge] ELSE identity_table(Q[edge])]

\* a gene with a table in only one of P, Q whose table has an off-diagonal
\* probability > 0
one_sided_off_diagonal(P, Q) ==
    \/ \E edge \in (DOMAIN P) \ (DOMAIN Q) : \E k \in DOMAIN P[edge] :
           k[1] # k[2] /\ P[edge][k][1] > 0
    \/ \E edge \in (DOMAIN Q) \ (DOMAIN P) : \E k \in DOMAIN Q[edge] :
           k[1] # k[2] /\ Q[edge][k][1] > 0

\* C13: every distance the monitor appends to P_diffs is the RMS over the
\* tables of both collections, a gene with a table in only one of them being
\* compared against the identity distribution; it is non-zero when such a
\* gene has an off-diagonal transition probability > 0
C13_OneSidedAgainstIdentity ==
    [][Len(P_diffs') = Len(P_diffs) + 1 =>
          /\ P_diffs'[Len(P_diffs')] =
                 calc_RMSD(with_identity(P_prev', P_prev), with_identity(P_prev, P_prev'),
                           n_steps_averaged)
          /\ one_sided_off_diagonal(P_prev', P_prev) => P_diffs'[Len(P_diffs')] > 0]_vars

\* a step of the gene loop that drew a module for gene_ndx
module_drawn == pc = "genes" /\ gene_ndx' = gene_ndx + 1

\* C14: a move of gene g from module a to the drawn module b leaves every LP
\* entry outside columns a and b and g's own entries LP[g,a], LP[g,b] at
\* their pre-move values, and sets every other entry of columns a and b to
\* the calc_lp_column value of the post-move aggregates; when the drawn
\* module is the current one, the mapping, the sizes, the oneCounts and LP
\* do not change
C14_MoveFrame ==
    [][module_drawn =>
          LET g == gene_ndx
              a == gene2Module[gene_ndx]
              b == drawn_module'
          IN IF b = a
             THEN UNCHANGED << gene2Module, moduleSizes, nOnesPerPatientInModules, LP >>
             ELSE \A h \in Genes : \A m \in Modules :
                      LP'[h][m] =
                          IF m \notin {a, b} \/ h = g THEN LP[h][m]
                          ELSE calc_lp_column(m, moduleSizes',
                                              nOnesPerPatientInModules')[h]]_vars

\* among three or more genes, the gene sampled last has moved in this step and
\* its entry for its new module is not the value calc_lp_column gives now
C14_Witness ==
    /\ pc = "genes"
    /\ gene_ndx > 0
    /\ K >= 3
    /\ LET g == gene_ndx - 1
           b == gene2Module[g]
           a == gene2Module_history[Len(gene2Module_history)][g]
       IN /\ a # b
          /\ drawn_module = b
          /\ LP[g][b] # calc_lp_column(b, moduleSizes, nOnesPerPatientInModules)[g]

\* C15: the window the monitor evaluated at the step just completed is the
\* trailing window of the history: its n_steps_averaged most recent
\* snapshots, the last of them the snapshot appended for that step
C15_TrailingWindow ==
    monitor_bound =>
        /\ Len(monitor_labels) = n_steps_averaged
        /\ monitor_labels = LastItems(gene2Module_history, n_steps_averaged)
        /\ monitor_labels[Len(monitor_labels)]
               = gene2Module_history[Len(gene2Module_history)]

====
